---- MODULE Spec2Model ----
(***************************************************************************)
(* The Scribbly kinematics module (KINEMATICS: setConfig, recalcProps,     *)
(* getCircleIntersections, forward, inverse) as a state machine over the   *)
(* shared CONFIG / props objects.                                          *)
(*                                                                         *)
(* JavaScript Numbers are IEEE 754 binary floating point.  They are        *)
(* modelled as binary floating point with round-to-nearest-even after      *)
(* every operation, with a significand of 24 bits (the binary32 format)    *)
(* instead of 53, and with an unbounded exponent: a finite number is       *)
(* m * 2^e with 2^23 <= |m| < 2^24, or zero.  NaN and the infinities are   *)
(* values of their own.  +, -, *, / and Math.sqrt are correctly rounded;   *)
(* Math.cos, Math.sin, Math.atan2 and Math.asin are computed to within an  *)
(* ulp.  The sign of zero is not modelled.                                 *)
(***************************************************************************)
EXTENDS Integers, Sequences, FiniteSets, TLC

\* KINEMATICS and the record of the last call made on it
VARIABLES CONFIG, props, lastOp, lastArgs, used, ret

\* the market demo: the scenarios table, the application's currentState, the
\* scenario whose market object currentState.market is (0: an object of its
\* own), the state as created at the last load, the state at the start of
\* the current run of trades, and the error of the last trade attempt
VARIABLES scenarios, currentState, marketOf, setup, start, lastError

\* the simulator: its state object, its animation queue, and the steps as
\* they were queued
VARIABLES state, animationQueue, queued

kinVars == <<CONFIG, props, lastOp, lastArgs, used, ret>>
marketVars == <<scenarios, currentState, marketOf, setup, start, lastError>>
simVars == <<state, animationQueue, queued>>

vars == <<kinVars, marketVars, simVars>>

(***************************************************************************)
(* Number: representation and rounding                                     *)
(***************************************************************************)
TwoP == 2^24
HalfP == 2^23

Fin(m, e) == [k |-> "fin", m |-> m, e |-> e]
NaN == [k |-> "nan", m |-> 0, e |-> 0]
Inf(s) == [k |-> "inf", m |-> s, e |-> 0]
Zero == Fin(0, 0)

IsNaN(a) == a.k = "nan"
IsFin(a) == a.k = "fin"
IsInf(a) == a.k = "inf"

Sgn(n) == IF n < 0 THEN -1 ELSE IF n > 0 THEN 1 ELSE 0
AbsI(n) == IF n < 0 THEN -n ELSE n
MaxI(a, b) == IF a >= b THEN a ELSE b

\* the number of bits of n, 0 <= n < 2^31
BitLen(n) ==
    IF n >= 2^30 THEN 31
    ELSE CHOOSE L \in 0..30 : n < 2^L /\ (L = 0 \/ n >= 2^(L - 1))

\* q with the remainder r of a division by 2*h rounded away: to nearest, ties to even
RoundUp(q, r, h) == IF r > h \/ (r = h /\ q % 2 = 1) THEN q + 1 ELSE q

\* the Number nearest to n * 2^e
Round(n, e) ==
    IF n = 0 THEN Zero
    ELSE LET a == AbsI(n)
             L == BitLen(a)
         IN  IF L <= 24
             THEN Fin(Sgn(n) * a * 2^(24 - L), e - (24 - L))
             ELSE LET k == L - 24
                      q == RoundUp(a \div 2^k, a % 2^k, 2^(k - 1))
                  IN  IF q = TwoP THEN Fin(Sgn(n) * HalfP, e + k + 1)
                                  ELSE Fin(Sgn(n) * q, e + k)

\* a numeric literal with an integer value
Num(n) == Round(n, 0)

(***************************************************************************)
(* Number: arithmetic and comparison                                       *)
(***************************************************************************)
FNeg(a) == IF IsNaN(a) THEN a ELSE [a EXCEPT !.m = -a.m]

MathAbs(a) == IF IsNaN(a) THEN a ELSE [a EXCEPT !.m = AbsI(a.m)]

\* a + b for finite a, b with a.e >= b.e: b is aligned to a with three guard
\* bits, the last one sticky
AddAligned(a, b) ==
    LET d == a.e - b.e
        bm == AbsI(b.m) * 8
        q == bm \div 2^d
        st == IF bm % 2^d # 0 /\ q % 2 = 0 THEN 1 ELSE 0
    IN  IF d > 26 THEN a
        ELSE Round(a.m * 8 + Sgn(b.m) * (q + st), a.e - 3)

FAdd(a, b) ==
    IF IsFin(a) /\ IsFin(b) /\ a.m # 0 /\ b.m # 0
    THEN (IF a.e >= b.e THEN AddAligned(a, b) ELSE AddAligned(b, a))
    ELSE IF IsNaN(a) \/ IsNaN(b) THEN NaN
    ELSE IF IsInf(a) /\ IsInf(b) THEN (IF a.m = b.m THEN a ELSE NaN)
    ELSE IF IsInf(a) THEN a
    ELSE IF IsInf(b) THEN b
    ELSE IF a.m = 0 THEN b
    ELSE a

FSub(a, b) == FAdd(a, FNeg(b))

\* the 48-bit product of two 24-bit significands x, y, as hi * 2^24 + lo
MulHiLo(x, y) ==
    LET x1 == x \div 4096  x0 == x % 4096
        y1 == y \div 4096  y0 == y % 4096
        mid == x1 * y0 + x0 * y1
        lof == (mid % 4096) * 4096 + x0 * y0
    IN  [hi |-> x1 * y1 + mid \div 4096 + lof \div TwoP, lo |-> lof % TwoP]

FMul(a, b) ==
    IF IsFin(a) /\ IsFin(b) /\ a.m # 0 /\ b.m # 0
    THEN LET s == Sgn(a.m) * Sgn(b.m)
             p == MulHiLo(AbsI(a.m), AbsI(b.m))
             big == p.hi >= HalfP
             q == IF big THEN RoundUp(p.hi, p.lo, HalfP)
                         ELSE RoundUp(p.hi * 2 + p.lo \div HalfP, p.lo % HalfP, HalfP \div 2)
             e == a.e + b.e + (IF big THEN 24 ELSE 23)
         IN  IF q = TwoP THEN Fin(s * HalfP, e + 1) ELSE Fin(s * q, e)
    ELSE IF IsNaN(a) \/ IsNaN(b) THEN NaN
    ELSE IF IsInf(a) \/ IsInf(b)
         THEN (IF a.m = 0 \/ b.m = 0 THEN NaN ELSE Inf(Sgn(a.m) * Sgn(b.m)))
    ELSE Zero

\* long division, five quotient bits a step: <<quotient, remainder>> of
\* (q * y + r) * 32^n by y
LongStep(v, y) ==
    IF v[3] = 0 THEN v
    ELSE <<v[1] * 32 + (v[2] * 32) \div y, (v[2] * 32) % y, v[3] - 1>>

\* the steps that are left of v = <<q, r, n>>, two at a time
RECURSIVE LongFrom(_, _)
LongFrom(v, y) == IF v[3] = 0 THEN <<v[1], v[2]>> ELSE LongFrom(LongStep(LongStep(v, y), y), y)

LongDiv(q, r, y, n) == LongFrom(<<q, r, n>>, y)

FDiv(a, b) ==
    IF IsFin(a) /\ IsFin(b) /\ a.m # 0 /\ b.m # 0
    THEN LET x == AbsI(a.m)
             y == AbsI(b.m)
             qr == LongDiv(x \div y, x % y, y, 5)
             st == IF qr[2] # 0 THEN 1 ELSE 0
         IN  Round(Sgn(a.m) * Sgn(b.m) * (qr[1] * 2 + st), a.e - b.e - 26)
    ELSE IF IsNaN(a) \/ IsNaN(b) THEN NaN
    ELSE IF IsInf(a) THEN (IF IsInf(b) THEN NaN
                           ELSE Inf(Sgn(a.m) * (IF b.m < 0 THEN -1 ELSE 1)))
    ELSE IF IsInf(b) THEN Zero
    ELSE IF b.m = 0 THEN (IF a.m = 0 THEN NaN ELSE Inf(Sgn(a.m)))
    ELSE Zero

\* digit-by-digit square root: one step on v = <<root, rem, i, n>>, the next
\* bit pair of the radicand taken from m (pairs i-1 .. 0), then zeros
SqrtStep(v, m) ==
    LET pair == IF v[3] > 0 THEN (m \div 4^(v[3] - 1)) % 4 ELSE 0
        r == v[2] * 4 + pair
        t == v[1] * 4 + 1
    IN  IF v[4] = 0 THEN v
        ELSE IF r >= t THEN <<v[1] * 2 + 1, r - t, MaxI(v[3] - 1, 0), v[4] - 1>>
                       ELSE <<v[1] * 2, r, MaxI(v[3] - 1, 0), v[4] - 1>>

\* the steps that are left, four at a time (no step is left once n = 0)
RECURSIVE SqrtFrom(_, _)
SqrtFrom(v, m) ==
    IF v[4] = 0 THEN v
    ELSE SqrtFrom(SqrtStep(SqrtStep(SqrtStep(SqrtStep(v, m), m), m), m), m)

\* n more steps: <<root, rem>>
SqrtDigits(root, rem, m, i, n) == SqrtFrom(<<root, rem, i, n>>, m)

MathSqrt(a) ==
    IF IsNaN(a) THEN NaN
    ELSE IF IsInf(a) THEN (IF a.m > 0 THEN a ELSE NaN)
    ELSE IF a.m < 0 THEN NaN
    ELSE IF a.m = 0 THEN Zero
    ELSE LET odd == a.e % 2 # 0
             m == IF odd THEN a.m * 2 ELSE a.m
             e == IF odd THEN a.e - 1 ELSE a.e
             rr == SqrtDigits(0, 0, m, 13, 26)
             st == IF rr[2] # 0 THEN 1 ELSE 0
         IN  Round(rr[1] * 2 + st, e \div 2 - 14)

FLt(a, b) ==
    IF IsFin(a) /\ IsFin(b) /\ a.m > 0 /\ b.m > 0
    THEN (IF a.e # b.e THEN a.e < b.e ELSE a.m < b.m)
    ELSE IF IsNaN(a) \/ IsNaN(b) THEN FALSE
    ELSE IF IsInf(a) THEN a.m < 0 /\ ~(IsInf(b) /\ b.m < 0)
    ELSE IF IsInf(b) THEN b.m > 0
    ELSE IF Sgn(a.m) # Sgn(b.m) THEN Sgn(a.m) < Sgn(b.m)
    ELSE IF a.m = 0 THEN FALSE
    ELSE IF a.e # b.e THEN (IF a.m > 0 THEN a.e < b.e ELSE a.e > b.e)
    ELSE a.m < b.m

FGt(a, b) == FLt(b, a)

\* === on Numbers
FEq(a, b) == ~IsNaN(a) /\ ~IsNaN(b) /\ a = b

FLe(a, b) == FLt(a, b) \/ FEq(a, b)

(***************************************************************************)
(* Math.PI, Math.cos, Math.sin, Math.atan2, Math.asin.  Angles are reduced *)
(* and rotated in fixed point (2^-27 radians, vectors in units of 2^-29)   *)
(* by CORDIC steps, and the result is rounded to a Number.                  *)
(***************************************************************************)
\* atan(2^-i) in units of 2^-27 radians, i = 0 .. 27
AtanTable == <<105414357, 62229729, 32880480, 16690645, 8377711, 4192939, 2096981,
               1048555, 524285, 262144, 131072, 65536, 32768, 16384, 8192, 4096,
               2048, 1024, 512, 256, 128, 64, 32, 16, 8, 4, 2, 1>>

CordicSteps == Len(AtanTable)

\* the product of cos(atan(2^-i)), in units of 2^-29
CordicGain == 326016437

\* pi, pi/2 and 2*pi in units of 2^-27 radians
PiFix == 421657428
HalfPiFix == 210828714
TwoPiFix == 843314857

MathPI == Round(PiFix, -27)

\* the angle a (|a| < 16) in units of 2^-27 radians, to nearest
ToAngle(a) ==
    IF a.m = 0 THEN 0
    ELSE IF a.e + 27 >= 0 THEN a.m * 2^(a.e + 27)
    ELSE IF -(a.e + 27) > 25 THEN 0
    ELSE (a.m + 2^(-(a.e + 27) - 1)) \div 2^(-(a.e + 27))

\* step i of the rotation of v = <<x, y, z, i>>
RotStep(v) ==
    IF v[3] >= 0
    THEN <<v[1] - v[2] \div 2^v[4], v[2] + v[1] \div 2^v[4], v[3] - AtanTable[v[4] + 1], v[4] + 1>>
    ELSE <<v[1] + v[2] \div 2^v[4], v[2] - v[1] \div 2^v[4], v[3] + AtanTable[v[4] + 1], v[4] + 1>>

\* the steps of the rotation that are left, four at a time
RECURSIVE RotFrom(_)
RotFrom(v) ==
    IF v[4] = CordicSteps THEN v ELSE RotFrom(RotStep(RotStep(RotStep(RotStep(v)))))

\* rotate <<x, y>> by the angle z
Rot(x, y, z, i) == RotFrom(<<x, y, z, i>>)

\* <<cos a, sin a>>
CosSin(a) ==
    IF ~IsFin(a) THEN <<NaN, NaN>>
    ELSE IF ToAngle(a) = 0 THEN <<Num(1), a>>
    ELSE LET z0 == ToAngle(a) % TwoPiFix
             z1 == IF z0 > PiFix THEN z0 - TwoPiFix ELSE z0
             flip == IF z1 > HalfPiFix \/ z1 < -HalfPiFix THEN -1 ELSE 1
             z == IF z1 > HalfPiFix THEN z1 - PiFix
                  ELSE IF z1 < -HalfPiFix THEN z1 + PiFix ELSE z1
             xy == Rot(CordicGain, 0, AbsI(z), 0)
         IN  IF z1 = 0 THEN <<Num(1), Zero>>
             ELSE IF z = 0 THEN <<Num(flip), Zero>>
             ELSE <<Round(flip * xy[1], -29), Round(flip * Sgn(z) * xy[2], -29)>>

MathCos(a) == CosSin(a)[1]

MathSin(a) == CosSin(a)[2]

\* step i of the turn of v = <<x, y, z, i>> toward the x axis; no step is
\* left once y = 0
VecStep(v) ==
    IF v[4] = CordicSteps \/ v[2] = 0 THEN v
    ELSE IF v[2] > 0
         THEN <<v[1] + v[2] \div 2^v[4], v[2] - v[1] \div 2^v[4], v[3] + AtanTable[v[4] + 1], v[4] + 1>>
         ELSE <<v[1] - v[2] \div 2^v[4], v[2] + v[1] \div 2^v[4], v[3] - AtanTable[v[4] + 1], v[4] + 1>>

\* the steps of the turn that are left, four at a time
RECURSIVE VecFrom(_)
VecFrom(v) ==
    IF v[4] = CordicSteps \/ v[2] = 0 THEN v[3]
    ELSE VecFrom(VecStep(VecStep(VecStep(VecStep(v)))))

\* the angle of <<x, y>>, x >= 0, y >= 0, added to z
Vec(x, y, z, i) == VecFrom(<<x, y, z, i>>)

\* m * 2^k, truncated toward zero
Scale(m, k) ==
    IF k >= 0 THEN m * 2^k
    ELSE IF -k >= 31 THEN 0
    ELSE Sgn(m) * (AbsI(m) \div 2^(-k))

\* Math.atan2(y, x); no operation of the module passes it an infinity
MathAtan2(y, x) ==
    IF ~IsFin(y) \/ ~IsFin(x) THEN NaN
    ELSE IF y.m = 0 THEN (IF x.m >= 0 THEN Zero ELSE MathPI)
    ELSE IF x.m = 0 THEN (IF y.m > 0 THEN Round(HalfPiFix, -27)
                                     ELSE FNeg(Round(HalfPiFix, -27)))
    ELSE LET E == MaxI(x.e, y.e)
             X == Scale(x.m, x.e - E + 4)
             Y == AbsI(Scale(y.m, y.e - E + 4))
             z == IF X >= 0 THEN Vec(X, Y, 0, 0) ELSE PiFix - Vec(-X, Y, 0, 0)
         IN  Round(Sgn(y.m) * z, -27)

MathAsin(v) ==
    IF ~IsFin(v) THEN NaN
    ELSE IF FGt(MathAbs(v), Num(1)) THEN NaN
    ELSE MathAtan2(v, MathSqrt(FMul(FSub(Num(1), v), FAdd(Num(1), v))))

(***************************************************************************)
(* Math.exp, Math.log and Math.max.  exp reduces its argument by a         *)
(* multiple of ln 2 and sums the series of the rest; log splits its        *)
(* argument into f * 2^E with f near 1 and sums the series of              *)
(* (f - 1) / (f + 1).  Both are within a few ulp.                          *)
(***************************************************************************)
\* ln 2 in two parts, the first with its last 9 bits zero, and 1 / ln 2
Ln2Hi == Fin(11629056, -24)
Ln2Lo == Fin(12566158, -43)
InvLn2 == Fin(12102203, -23)

ExpTerms == 8
LogTerms == 6

\* the integer nearest to the finite a, |a| < 2^23
ToInt(a) ==
    IF a.m = 0 THEN 0
    ELSE IF a.e >= 0 THEN a.m * 2^a.e
    ELSE IF -a.e > 25 THEN 0
    ELSE Sgn(a.m) * ((AbsI(a.m) + 2^(-a.e - 1)) \div 2^(-a.e))

\* one partial sum more: v = <<n, acc>> becomes <<n - 1, 1 + r/n * acc>>
ExpStep(r, v) ==
    IF v[1] = 0 THEN v
    ELSE <<v[1] - 1, FAdd(Num(1), FMul(FDiv(r, Num(v[1])), v[2]))>>

\* the partial sums that are left, two at a time
RECURSIVE ExpFrom(_, _)
ExpFrom(r, v) == IF v[1] = 0 THEN v[2] ELSE ExpFrom(r, ExpStep(r, ExpStep(r, v)))

\* 1 + r/1 * (1 + r/2 * (... (1 + r/n * acc)))
ExpSeries(r, n, acc) == ExpFrom(r, <<n, acc>>)

\* a * 2^k
Ldexp(a, k) == IF IsFin(a) /\ a.m # 0 THEN Fin(a.m, a.e + k) ELSE a

\* exp(a) for the finite a with k the integer nearest to a / ln 2
ExpReduced(a, k) ==
    CHOOSE y \in {Ldexp(ExpSeries(r, ExpTerms, Num(1)), k) :
                      r \in {FSub(FSub(a, FMul(Num(k), Ln2Hi)), FMul(Num(k), Ln2Lo))}} : TRUE

MathExp(a) ==
    IF IsFin(a) /\ a.m # 0 /\ a.e <= -14
    THEN CHOOSE y \in {ExpReduced(a, k) : k \in {ToInt(FMul(a, InvLn2))}} : TRUE
    ELSE IF IsNaN(a) THEN NaN
    ELSE IF IsInf(a) THEN (IF a.m > 0 THEN a ELSE Zero)
    ELSE IF a.m = 0 THEN Num(1)
    ELSE (IF a.m > 0 THEN Inf(1) ELSE Zero)

\* one term more in front: v = <<n, inner>>, inner the sum from term n on,
\* becomes <<n - 1, 1/(2n-1) + w * inner>>; no term is left at n = first
LogStep(w, first, v) ==
    IF v[1] = first THEN v
    ELSE <<v[1] - 1, FAdd(FDiv(Num(1), Num(2 * v[1] - 1)), FMul(w, v[2]))>>

\* the terms that are left, two at a time
RECURSIVE LogFrom(_, _, _)
LogFrom(w, first, v) ==
    IF v[1] = first THEN v[2] ELSE LogFrom(w, first, LogStep(w, first, LogStep(w, first, v)))

\* 1/(2n+1) + w * (1/(2n+3) + w * (...)), the last term being 1/(2*last+1)
LogSeries(w, n, last) == LogFrom(w, n, <<last, FDiv(Num(1), Num(2 * last + 1))>>)

\* E * ln 2 + 2 * z * (1 + z^2/3 + z^4/5 + ...)
LogOfQuotient(z, E) ==
    CHOOSE y \in {FAdd(FMul(Num(E), Ln2Hi),
                       FAdd(FMul(FMul(Num(2), z), series), FMul(Num(E), Ln2Lo))) :
                      series \in {CHOOSE t \in {LogSeries(w, 0, LogTerms - 1) :
                                                    w \in {FMul(z, z)}} : TRUE}} : TRUE

\* log(f * 2^E), f in [0.707, 1.414]
LogOfFraction(f, E) ==
    CHOOSE y \in {LogOfQuotient(z, E) :
                      z \in {FDiv(FSub(f, Num(1)), FAdd(f, Num(1)))}} : TRUE

MathLog(a) ==
    IF IsFin(a) /\ a.m > 0
    THEN (IF a.m > 11863283 THEN LogOfFraction(Fin(a.m, -24), a.e + 24)
                            ELSE LogOfFraction(Fin(a.m, -23), a.e + 23))
    ELSE IF IsNaN(a) THEN NaN
    ELSE IF IsInf(a) THEN (IF a.m > 0 THEN a ELSE NaN)
    ELSE IF a.m < 0 THEN NaN
    ELSE Inf(-1)

\* Math.max of two Numbers
MathMax(a, b) ==
    IF IsNaN(a) \/ IsNaN(b) THEN NaN ELSE IF FLt(a, b) THEN b ELSE a

(***************************************************************************)
(* Values of the program                                                   *)
(***************************************************************************)
\* null, and the TypeError raised by calling a method of null
Null == [t |-> "null"]
TypeError == [t |-> "TypeError"]

Point(x, y) == [x |-> x, y |-> y]

\* Math.hypot of the difference of two points (the tests' error measure)
Hypot(p, q) ==
    LET dx == FSub(p.x, q.x)
        dy == FSub(p.y, q.y)
    IN  MathSqrt(FAdd(FMul(dx, dx), FMul(dy, dy)))

maxY(a, b) == IF FGt(a.y, b.y) THEN a ELSE b

\* an inverse that takes the elbow of larger y
minY_larger(a, b) == IF FGt(a.y, b.y) THEN a ELSE b
minY(a, b) == IF FLt(a.y, b.y) THEN a ELSE b

\* reduce with maxY, with minY, on a two-element array; on null it throws
reduceMaxY(arr) == IF arr = Null THEN TypeError ELSE maxY(arr[1], arr[2])
reduceMinY(arr) == IF arr = Null THEN TypeError ELSE minY(arr[1], arr[2])

(***************************************************************************)
(* KINEMATICS                                                              *)
(***************************************************************************)
DefaultConfig ==
    [SHOULDER_SEP |-> Num(140), L_BODY |-> Num(50), L_BLUE |-> Num(80),
     A_BEND |-> Num(120), L_MAIN |-> Num(180)]

InitProps == [L_EFF |-> Zero, PHI |-> Zero]

\* a setConfig whose argument never overwrites a field the configuration has
merge_keepOld(old, config) ==
    [f \in DOMAIN old \cup DOMAIN config |->
        IF f \in DOMAIN old THEN old[f] ELSE config[f]]

\* { ...this.CONFIG, ...config }
merge(old, config) ==
    [f \in DOMAIN old \cup DOMAIN config |->
        IF f \in DOMAIN config THEN config[f] ELSE old[f]]

\* a recalcProps that takes LinkLength for the crank length when the
\* configuration has a MODE
recalcProps_byMode(cfg) ==
    IF "MODE" \in DOMAIN cfg
    THEN [L_EFF |-> cfg.LinkLength, PHI |-> Zero]
    ELSE [L_EFF |-> cfg.L_BODY, PHI |-> Zero]

\* a recalcProps that measures the bend from the straight arm (the
\* supplement of A_BEND), so that the crank length vanishes at 180 degrees
recalcProps_supplement(cfg) ==
    LET radBend == FDiv(FMul(FSub(Num(180), cfg.A_BEND), MathPI), Num(180))
        L_EFF == MathSqrt(FSub(FAdd(FMul(cfg.L_BODY, cfg.L_BODY), FMul(cfg.L_BLUE, cfg.L_BLUE)),
                               FMul(FMul(FMul(Num(2), cfg.L_BODY), cfg.L_BLUE),
                                    MathCos(radBend))))
    IN  [L_EFF |-> L_EFF,
         PHI |-> MathAsin(FDiv(FMul(cfg.L_BLUE, MathSin(radBend)), L_EFF))]

\* the props recalcProps stores, from the configuration cfg
recalcProps(cfg) ==
    LET L_BODY == cfg.L_BODY
        L_BLUE == cfg.L_BLUE
        A_BEND == cfg.A_BEND
        radBend == FDiv(FMul(A_BEND, MathPI), Num(180))
        L_EFF == MathSqrt(FSub(FAdd(FMul(L_BODY, L_BODY), FMul(L_BLUE, L_BLUE)),
                               FMul(FMul(FMul(Num(2), L_BODY), L_BLUE), MathCos(radBend))))
    IN  [L_EFF |-> L_EFF,
         PHI |-> MathAsin(FDiv(FMul(L_BLUE, MathSin(radBend)), L_EFF))]

\* a solver without the lazy-recompute guard
lazyProps_never(cfg, p) == p

\* if (this.props.L_EFF === 0) this.recalcProps();
lazyProps(cfg, p) == IF FEq(p.L_EFF, Zero) THEN recalcProps(cfg) ELSE p

\* getCircleIntersections is written as a chain, each link passing on the
\* consts the code has computed so far:
\*   lines 49-52, from x2, y2 and the offsets h * (dy / d), h * (dx / d)
gciPoints(x2, y2, hx, hy) ==
    << Point(FAdd(x2, hx), FSub(y2, hy)), Point(FSub(x2, hx), FAdd(y2, hy)) >>

\*   lines 46-48, from a
gciChord(x0, y0, dx, dy, d, a, h) ==
    gciPoints(FAdd(x0, FMul(a, FDiv(dx, d))), FAdd(y0, FMul(a, FDiv(dy, d))),
              FMul(h, FDiv(dy, d)), FMul(h, FDiv(dx, d)))

gciHeight(x0, y0, r0, dx, dy, d, a) ==
    CHOOSE ints \in {gciChord(x0, y0, dx, dy, d, a, h) :
                         h \in {MathSqrt(FSub(FMul(r0, r0), FMul(a, a)))}} : TRUE

\* a rejection test without d === 0
gciReject_noZero(r0, r1, d) ==
    FGt(d, FAdd(r0, r1)) \/ FLt(d, MathAbs(FSub(r0, r1)))

\*   lines 44-45, from d
gciReject(r0, r1, d) ==
    FGt(d, FAdd(r0, r1)) \/ FLt(d, MathAbs(FSub(r0, r1))) \/ FEq(d, Zero)

gciAt(x0, y0, r0, r1, dx, dy, d) ==
    IF gciReject(r0, r1, d) THEN Null
    ELSE CHOOSE ints \in {gciHeight(x0, y0, r0, dx, dy, d, a) :
                              a \in {FDiv(FAdd(FSub(FMul(r0, r0), FMul(r1, r1)), FMul(d, d)),
                                          FMul(Num(2), d))}} : TRUE

\*   line 43, from dx, dy
gciDistance(dx, dy) == MathSqrt(FAdd(FMul(dx, dx), FMul(dy, dy)))

gciFrom(x0, y0, r0, r1, dx, dy) == gciAt(x0, y0, r0, r1, dx, dy, gciDistance(dx, dy))

getCircleIntersections(x0, y0, r0, x1, y1, r1) ==
    gciFrom(x0, y0, r0, r1, FSub(x1, x0), FSub(y1, y0))

\* the servo axes
axisL(cfg) == Point(FDiv(FNeg(cfg.SHOULDER_SEP), Num(2)), Zero)
axisR(cfg) == Point(FDiv(cfg.SHOULDER_SEP, Num(2)), Zero)

\* virtual elbows with the left arm measured like the right one: dL in
\* place of 180 - dL
virtualElbows_sameSense(cfg, p, dL, dR) ==
    LET SL == axisL(cfg)
        SR == axisR(cfg)
        radL == FDiv(FMul(dL, MathPI), Num(180))
        radR == FDiv(FMul(FAdd(Zero, dR), MathPI), Num(180))
        thetaL_Eff == FSub(radL, p.PHI)
        thetaR_Eff == FAdd(radR, p.PHI)
    IN  [EL_Virtual |-> Point(FAdd(SL.x, FMul(p.L_EFF, MathCos(thetaL_Eff))),
                              FAdd(SL.y, FMul(p.L_EFF, MathSin(thetaL_Eff)))),
         ER_Virtual |-> Point(FAdd(SR.x, FMul(p.L_EFF, MathCos(thetaR_Eff))),
                              FAdd(SR.y, FMul(p.L_EFF, MathSin(thetaR_Eff))))]

\* the virtual elbows forward places for the servo angles dL, dR (degrees)
virtualElbows(cfg, p, dL, dR) ==
    LET SL == axisL(cfg)
        SR == axisR(cfg)
        radL == FDiv(FMul(FSub(Num(180), dL), MathPI), Num(180))
        radR == FDiv(FMul(FAdd(Zero, dR), MathPI), Num(180))
        thetaL_Eff == FSub(radL, p.PHI)
        thetaR_Eff == FAdd(radR, p.PHI)
    IN  [EL_Virtual |-> Point(FAdd(SL.x, FMul(p.L_EFF, MathCos(thetaL_Eff))),
                              FAdd(SL.y, FMul(p.L_EFF, MathSin(thetaL_Eff)))),
         ER_Virtual |-> Point(FAdd(SR.x, FMul(p.L_EFF, MathCos(thetaR_Eff))),
                              FAdd(SR.y, FMul(p.L_EFF, MathSin(thetaR_Eff))))]

\* forward (lines 62-97), with p the props it reads: the elbows E, then the
\* intersections ints, then the pen point P
forwardResult(cfg, E, P) ==
    IF P = TypeError THEN TypeError
    ELSE [P |-> P, SL |-> axisL(cfg), SR |-> axisR(cfg),
          EL_Virtual |-> E.EL_Virtual, ER_Virtual |-> E.ER_Virtual]

\* a forward without the guard of line 93
forwardPick_unguarded(cfg, E, ints) == forwardResult(cfg, E, reduceMaxY(ints))

forwardPick(cfg, E, ints) ==
    IF ints = Null THEN Null ELSE forwardResult(cfg, E, reduceMaxY(ints))

forwardFrom(cfg, E) ==
    forwardPick(cfg, E,
                getCircleIntersections(E.EL_Virtual.x, E.EL_Virtual.y, cfg.L_MAIN,
                                       E.ER_Virtual.x, E.ER_Virtual.y, cfg.L_MAIN))

\* a forward that enforces the servo range of inverse
forward_ranged(cfg, p, dL, dR) ==
    IF FLt(dL, FNeg(Num(30))) \/ FGt(dL, Num(60)) \/ FLt(dR, FNeg(Num(30))) \/ FGt(dR, Num(60))
    THEN Null
    ELSE CHOOSE res \in {forwardFrom(cfg, E) : E \in {virtualElbows(cfg, p, dL, dR)}} : TRUE

forward(cfg, p, dL, dR) ==
    CHOOSE res \in {forwardFrom(cfg, E) : E \in {virtualElbows(cfg, p, dL, dR)}} : TRUE

\* the servo limits of inverse: -30.1 and 60.1
ServoMin == FNeg(FDiv(Num(301), Num(10)))
ServoMax == FDiv(Num(601), Num(10))

\* the servo angles inverse computes for the elbows EL, ER, before its range check
servoAngles(cfg, p, EL, ER) ==
    LET SL == axisL(cfg)
        SR == axisR(cfg)
        angEffL == MathAtan2(FSub(EL.y, SL.y), FSub(EL.x, SL.x))
        angEffR == MathAtan2(FSub(ER.y, SR.y), FSub(ER.x, SR.x))
        radL == FAdd(angEffL, p.PHI)
        radR == FSub(angEffR, p.PHI)
        degL_Body == FDiv(FMul(radL, Num(180)), MathPI)
    IN  [thetaL |-> FSub(Num(180), degL_Body),
         thetaR |-> FDiv(FMul(radR, Num(180)), MathPI)]

\* lines 135-139
rangeCheck(s) ==
    IF FLt(s.thetaL, ServoMin) \/ FGt(s.thetaL, ServoMax)
       \/ FLt(s.thetaR, ServoMin) \/ FGt(s.thetaR, ServoMax)
    THEN Null
    ELSE s

\* inverse (lines 103-139), with p the props it reads: the intersections
\* intsL, intsR, then the elbows EL, ER, then the angles
inverseElbows(cfg, p, EL, ER) ==
    IF EL = TypeError \/ ER = TypeError THEN TypeError
    ELSE rangeCheck(servoAngles(cfg, p, EL, ER))

\* an inverse that gives up only when both sides fail
inversePick_bothSides(cfg, p, intsL, intsR) ==
    IF intsL = Null /\ intsR = Null THEN Null
    ELSE inverseElbows(cfg, p, reduceMinY(intsL), reduceMinY(intsR))

inversePick(cfg, p, intsL, intsR) ==
    IF intsL = Null \/ intsR = Null THEN Null
    ELSE inverseElbows(cfg, p, reduceMinY(intsL), reduceMinY(intsR))

inverse(cfg, p, x, y) ==
    inversePick(cfg, p,
                getCircleIntersections(axisL(cfg).x, axisL(cfg).y, p.L_EFF, x, y, cfg.L_MAIN),
                getCircleIntersections(axisR(cfg).x, axisR(cfg).y, p.L_EFF, x, y, cfg.L_MAIN))

(***************************************************************************)
(* The market demo and the simulator as they are before anything is       *)
(* loaded into them                                                        *)
(***************************************************************************)
Undefined == [t |-> "undefined"]

\* createMarket, with initialQuantities given or left out (Undefined)
createMarket(outcomes, b, initialQuantities) ==
    [outcomes |-> outcomes,
     b |-> b,
     quantities |-> IF initialQuantities = Undefined
                    THEN [i \in 1..Len(outcomes) |-> Zero]
                    ELSE initialQuantities]

\* the weather and election scenarios of the scenarios table
Scenarios ==
    << [id |-> "weather",
        market |-> createMarket(<<"Yes (>0.1in)", "No", "Heavy (>1in)">>, Num(10), Undefined),
        initialCash |-> Num(100)],
       [id |-> "election",
        market |-> createMarket(<<"Candidate A", "Candidate B", "Candidate C">>, Num(50),
                                <<Num(20), Num(15), Num(10)>>),
        initialCash |-> Num(200)] >>

MarketAtLoad ==
    /\ scenarios = Scenarios
    /\ currentState = Undefined
    /\ marketOf = 0
    /\ setup = Undefined
    /\ start = Undefined
    /\ lastError = "none"

\* the state object of the simulator
SimState ==
    [dL |-> Zero, dR |-> Zero, penDown |-> FALSE, path |-> <<>>, kRes |-> Null,
     speed |-> 1, isPaused |-> FALSE, totalSteps |-> 0]

SimAtLoad ==
    /\ state = SimState
    /\ animationQueue = <<>>
    /\ queued = <<>>

(***************************************************************************)
(* The calls made on the module.  lastOp and lastArgs name the last call,  *)
(* ret is what it returned, used the props a solver call read.             *)
(***************************************************************************)
\* the configurations passed to setConfig: single fields, crank triangles,
\* the fields of the linear-mode test, the full configuration of the tests,
\* the configuration of the simulator
ConfigArgs ==
    << [A_BEND |-> Num(60)],
       [L_BLUE |-> Num(20)],
       [L_BODY |-> Num(7), L_BLUE |-> Num(14), A_BEND |-> Num(60)],
       [L_BODY |-> Num(50), L_BLUE |-> Num(50), A_BEND |-> Num(0)],
       [MODE |-> "linear_parallel", OriginL |-> Num(-100), OriginR |-> Num(100),
        LinkLength |-> Num(250)],
       [SHOULDER_SEP |-> Num(140), L_BODY |-> Num(50), L_BLUE |-> Num(80),
        A_BEND |-> Num(120), L_MAIN |-> Num(180)],
       [SHOULDER_SEP |-> Num(140), L_BODY |-> Num(50), L_BLUE |-> Num(80),
        A_BEND |-> Num(120), L_MAIN |-> Num(180),
        SAFE_W |-> Num(100), SAFE_H |-> Num(100), SAFE_X |-> Num(0), SAFE_Y |-> Num(200)] >>

\* servo angle pairs (degrees) passed to forward, inside and outside [-30, 60]
ServoArgs ==
    {<<0, 0>>, <<-30, -30>>, <<60, 60>>, <<-30, 60>>, <<10, 20>>, <<90, 90>>, <<-38, -38>>}

\* targets passed to inverse
TargetArgs ==
    {<<0, 230>>, <<0, -110>>, <<0, 160>>, <<0, -200>>, <<0, 250>>, <<0, 400>>,
     <<-70, 0>>, <<230, 0>>, <<-50, -150>>, <<50, -250>>}

Init ==
    /\ CONFIG = DefaultConfig
    /\ props = InitProps
    /\ lastOp = "load"
    /\ lastArgs = <<>>
    /\ used = InitProps
    /\ ret = Null
    /\ MarketAtLoad
    /\ SimAtLoad

SetConfig(config) ==
    /\ CONFIG' = merge(CONFIG, config)
    /\ props' = recalcProps(CONFIG')
    /\ lastOp' = "setConfig"
    /\ lastArgs' = <<config>>
    /\ ret' = Null
    /\ UNCHANGED <<used, marketVars, simVars>>

Forward(dL, dR) ==
    /\ props' = lazyProps(CONFIG, props)
    /\ used' = props'
    /\ ret' = forward(CONFIG, props', dL, dR)
    /\ lastOp' = "forward"
    /\ lastArgs' = <<dL, dR>>
    /\ UNCHANGED <<CONFIG, marketVars, simVars>>

Inverse(x, y) ==
    /\ props' = lazyProps(CONFIG, props)
    /\ used' = props'
    /\ ret' = inverse(CONFIG, props', x, y)
    /\ lastOp' = "inverse"
    /\ lastArgs' = <<x, y>>
    /\ UNCHANGED <<CONFIG, marketVars, simVars>>

DoSetConfig == \E i \in 1..Len(ConfigArgs) : SetConfig(ConfigArgs[i])
DoForward == \E a \in ServoArgs : Forward(Num(a[1]), Num(a[2]))
DoInverse == \E a \in TargetArgs : Inverse(Num(a[1]), Num(a[2]))

Next == DoSetConfig \/ DoForward \/ DoInverse

Spec == Init /\ [][Next]_vars

(***************************************************************************)
(* getCircleIntersections on its own: the circles are drawn at load, on a  *)
(* grid of tenths, and the one call is made on them.                       *)
(***************************************************************************)
MaxRadius == 4
MaxCoord == 5

\* n / 10
Tenths(n) == FDiv(Num(n), Num(10))

\* circle 0 at the origin with radius r0, circle 1 at (x1, y1) with radius r1
GeomArgs ==
    {<<0, 0, r0, x1, y1, r1>> : r0 \in 1..MaxRadius, x1 \in 0..MaxCoord,
                                y1 \in 0..MaxCoord, r1 \in 1..MaxRadius}

Init_Geom ==
    /\ CONFIG = DefaultConfig
    /\ props = InitProps
    /\ lastOp = "load"
    /\ \E a \in GeomArgs : lastArgs = [i \in 1..6 |-> Tenths(a[i])]
    /\ used = InitProps
    /\ ret = Null
    /\ MarketAtLoad
    /\ SimAtLoad

GetCircleIntersections ==
    /\ lastOp = "load"
    /\ ret' = getCircleIntersections(lastArgs[1], lastArgs[2], lastArgs[3],
                                     lastArgs[4], lastArgs[5], lastArgs[6])
    /\ lastOp' = "getCircleIntersections"
    /\ UNCHANGED <<CONFIG, props, used, lastArgs, marketVars, simVars>>

Next_Geom == GetCircleIntersections

SpecGeom == Init_Geom /\ [][Next_Geom]_vars

(***************************************************************************)
(* Properties of the solver calls (under Spec)                             *)
(***************************************************************************)
\* 1e-3, the tolerance of the tests
Tolerance == FDiv(Num(1), Num(1000))

Solved == lastOp \in {"forward", "inverse"}

\* the last call returned a result: a pose from forward, a servo pair from inverse
Returned == ret # Null /\ ret # TypeError

\* the target of the last inverse call
Target == Point(lastArgs[1], lastArgs[2])

\* forward called on the servo pair the last inverse call returned
forwardOfRet == forward(CONFIG, lazyProps(CONFIG, props), ret.thetaL, ret.thetaR)

\* C1: whenever inverse returns a servo pair for a target, forward of that
\* pair returns a result whose pen point is within 1e-3 of the target.
C1_RoundTrip ==
    (lastOp = "inverse" /\ Returned) =>
        /\ forwardOfRet # Null
        /\ forwardOfRet # TypeError
        /\ FLe(Hypot(forwardOfRet.P, Target), Tolerance)

\* positive link lengths and 0 < A_BEND < 180
ValidConfig(cfg) ==
    /\ FGt(cfg.SHOULDER_SEP, Zero) /\ FGt(cfg.L_BODY, Zero)
    /\ FGt(cfg.L_BLUE, Zero) /\ FGt(cfg.L_MAIN, Zero)
    /\ FGt(cfg.A_BEND, Zero) /\ FLt(cfg.A_BEND, Num(180))

InServoRange(theta) == FLe(ServoMin, theta) /\ FLe(theta, ServoMax)

\* C2: under a configuration with positive link lengths and 0 < A_BEND < 180,
\* every servo pair inverse returns has thetaL and thetaR in [-30.1, 60.1].
C2_ServoRange ==
    (lastOp = "inverse" /\ ValidConfig(CONFIG) /\ Returned) =>
        InServoRange(ret.thetaL) /\ InServoRange(ret.thetaR)

\* the target of the last inverse call is farther from the axis S than
\* L_EFF + L_MAIN or closer to it than |L_EFF - L_MAIN|
OutOfReach(S) ==
    \/ FGt(Hypot(Target, S), FAdd(used.L_EFF, CONFIG.L_MAIN))
    \/ FLt(Hypot(Target, S), MathAbs(FSub(used.L_EFF, CONFIG.L_MAIN)))

\* C3: inverse returns not-found whenever the target is out of reach of the
\* left axis or of the right axis; one side is enough.
C3_GeometricInfeasibility ==
    (lastOp = "inverse" /\ (OutOfReach(axisL(CONFIG)) \/ OutOfReach(axisR(CONFIG))))
        => ret = Null

\* an inverse call whose target is out of reach of one axis only
C3_Witness ==
    /\ lastOp = "inverse"
    /\ OutOfReach(axisL(CONFIG)) # OutOfReach(axisR(CONFIG))
    /\ ret = Null

\* the distance of the two virtual elbows of the last forward call
elbowDistance ==
    LET E == virtualElbows(CONFIG, used, lastArgs[1], lastArgs[2])
    IN  Hypot(E.ER_Virtual, E.EL_Virtual)

\* the circles of radius L_MAIN on the two virtual elbows intersect, in the
\* sense of getCircleIntersections: 0 < d <= 2 * L_MAIN (identical circles,
\* d = 0, count as not intersecting)
ElbowCirclesIntersect ==
    FGt(elbowDistance, Zero) /\ FLe(elbowDistance, FAdd(CONFIG.L_MAIN, CONFIG.L_MAIN))

\* C4: forward returns a result whenever the circles of radius L_MAIN on the
\* two virtual elbows intersect, whatever the servo angles, in or out of
\* [-30, 60]; it returns not-found only when they do not intersect.
C4_ForwardDefined ==
    (lastOp = "forward" /\ ElbowCirclesIntersect) => Returned

\* a forward call with servo angles above 60.1 degrees that returned a pose
C4_Witness ==
    /\ lastOp = "forward"
    /\ FGt(lastArgs[1], ServoMax) /\ FGt(lastArgs[2], ServoMax)
    /\ ElbowCirclesIntersect
    /\ Returned
    /\ IsFin(ret.P.x) /\ IsFin(ret.P.y)

\* C5: a call of forward or inverse returns a result or null; it never throws.
C5_NeverThrows ==
    Solved => ret # TypeError

\* a forward call that found no intersection of the elbow circles and
\* returned null
C5_Witness ==
    /\ lastOp = "forward"
    /\ ~ElbowCirclesIntersect
    /\ ret = Null

\* C6: the L_EFF and PHI a forward or inverse call uses are those derived
\* from the configuration current at the call, and what the call returns is
\* determined by its arguments and that configuration.
C6_PropsFresh ==
    Solved =>
        /\ used = recalcProps(CONFIG)
        /\ lastOp = "forward" =>
               ret = forward(CONFIG, recalcProps(CONFIG), lastArgs[1], lastArgs[2])
        /\ lastOp = "inverse" =>
               ret = inverse(CONFIG, recalcProps(CONFIG), lastArgs[1], lastArgs[2])

\* a solve under the built-in defaults, whose props the lazy guard computed
C6_Witness ==
    /\ Solved
    /\ CONFIG = DefaultConfig
    /\ used # InitProps
    /\ used = recalcProps(DefaultConfig)
    /\ Returned

\* C7: setConfig gives every field of its argument the supplied value, keeps
\* every other field of the configuration, and leaves the props recomputed
\* from the merged configuration.
C7_SetConfigMerges ==
    [][lastOp' = "setConfig" =>
        /\ \A f \in DOMAIN lastArgs'[1] : CONFIG'[f] = lastArgs'[1][f]
        /\ \A f \in DOMAIN CONFIG \ DOMAIN lastArgs'[1] :
               f \in DOMAIN CONFIG' /\ CONFIG'[f] = CONFIG[f]
        /\ DOMAIN CONFIG' = DOMAIN CONFIG \cup DOMAIN lastArgs'[1]
        /\ props' = recalcProps(CONFIG')]_vars

\* a setConfig of L_BLUE alone: the other fields are the defaults still
C7_Witness ==
    /\ lastOp = "setConfig"
    /\ DOMAIN lastArgs[1] = {"L_BLUE"}
    /\ CONFIG.L_BLUE = lastArgs[1].L_BLUE
    /\ CONFIG.L_BLUE # DefaultConfig.L_BLUE
    /\ CONFIG.L_BODY = DefaultConfig.L_BODY
    /\ CONFIG.A_BEND = DefaultConfig.A_BEND
    /\ props = recalcProps(CONFIG)
    /\ props # recalcProps(DefaultConfig)

\* C8: under a degenerate crank triangle (L_EFF = 0, PHI undefined) no forward
\* call returns a pose and no inverse call returns a servo pair; the call
\* ends in an error instead.
C8_DegenerateRejected ==
    (Solved /\ FEq(used.L_EFF, Zero)) => ~Returned

(***************************************************************************)
(* Properties of getCircleIntersections (under SpecGeom)                   *)
(***************************************************************************)
Called == lastOp = "getCircleIntersections"

radius0 == lastArgs[3]
radius1 == lastArgs[6]
centre0 == Point(lastArgs[1], lastArgs[2])
centre1 == Point(lastArgs[4], lastArgs[5])

\* the distance of the two centres
centreDistance == Hypot(centre1, centre0)

Tangent ==
    FEq(centreDistance, FAdd(radius0, radius1)) \/ FEq(centreDistance, MathAbs(FSub(radius0, radius1)))

\* C9: getCircleIntersections returns null exactly when d > r0 + r1,
\* d < |r0 - r1| or d = 0, and two points in every other case.
C9_RejectExactly ==
    Called =>
        /\ ret = Null <=> \/ FGt(centreDistance, FAdd(radius0, radius1))
                          \/ FLt(centreDistance, MathAbs(FSub(radius0, radius1)))
                          \/ FEq(centreDistance, Zero)
        /\ ret # Null => DOMAIN ret = 1..2

\* identical circles: null
C9_Witness ==
    /\ Called
    /\ centre0 = centre1 /\ radius0 = radius1
    /\ ret = Null

\* the point q is at distance r of the centre c, within the tolerance
AtDistance(q, c, r) == FLe(MathAbs(FSub(Hypot(q, c), r)), Tolerance)

\* C10: for circles that are not rejected, getCircleIntersections returns two
\* points with finite coordinates, each at distance r0 of the first centre and
\* r1 of the second, and the two coincide exactly when the circles are tangent.
C10_TwoFinitePoints ==
    (Called /\ ret # Null) =>
        /\ DOMAIN ret = 1..2
        /\ \A i \in 1..2 :
              /\ IsFin(ret[i].x) /\ IsFin(ret[i].y)
              /\ AtDistance(ret[i], centre0, radius0)
              /\ AtDistance(ret[i], centre1, radius1)
        /\ ret[1] = ret[2] <=> Tangent

(***************************************************************************)
(* Scenarios of the tests and branch selection (under Spec)                *)
(***************************************************************************)
\* the configuration has the built-in link lengths and bend angle
DefaultCrank == \A f \in DOMAIN DefaultConfig : CONFIG[f] = DefaultConfig[f]

\* C11: under the default configuration inverse(0, -200) returns a servo
\* pair, and forward of that pair returns a pen point within 0.001 of
\* (0, -200).
C11_Baseline ==
    (lastOp = "inverse" /\ DefaultCrank /\ Target = Point(Num(0), Num(-200))) =>
        /\ Returned
        /\ forwardOfRet # Null
        /\ forwardOfRet # TypeError
        /\ FLt(Hypot(forwardOfRet.P, Target), Tolerance)

\* C12: under the default configuration a forward call with equal servo
\* angles that returns a pose returns a pen point with |P.x| < 0.001 and
\* virtual elbows with |EL_Virtual.x + ER_Virtual.x| < 0.001; forward(0, 0)
\* returns a pose, with P.y > 50.
C12_MirrorSymmetry ==
    (lastOp = "forward" /\ DefaultCrank /\ lastArgs[1] = lastArgs[2]) =>
        /\ Returned =>
              /\ FLt(MathAbs(ret.P.x), Tolerance)
              /\ FLt(MathAbs(FAdd(ret.EL_Virtual.x, ret.ER_Virtual.x)), Tolerance)
        /\ lastArgs[1] = Zero => (Returned /\ FGt(ret.P.y, Num(50)))

\* forward(0, 0) under the default configuration has returned a pose with
\* the left elbow left of the right elbow
C12_Witness ==
    /\ lastOp = "forward" /\ DefaultCrank
    /\ lastArgs = <<Zero, Zero>>
    /\ Returned
    /\ FLt(ret.EL_Virtual.x, Zero) /\ FGt(ret.ER_Virtual.x, Zero)
    /\ FGt(ret.P.y, Num(50))

\* the pose forward(0, 0) returns under the current configuration
forwardAtZero == forward(CONFIG, lazyProps(CONFIG, props), Zero, Zero)

\* C13: under the default configuration forward(-30, -30) returns a pose
\* whose pen y is smaller than that of forward(0, 0), and inverse(0, 250)
\* returns a servo pair with thetaL > 10 and thetaR > 10.
C13_Direction ==
    /\ (lastOp = "forward" /\ DefaultCrank /\ lastArgs = <<Num(-30), Num(-30)>>) =>
           /\ Returned
           /\ forwardAtZero # Null
           /\ FLt(ret.P.y, forwardAtZero.P.y)
    /\ (lastOp = "inverse" /\ DefaultCrank /\ Target = Point(Num(0), Num(250))) =>
           /\ Returned
           /\ FGt(ret.thetaL, Num(10))
           /\ FGt(ret.thetaR, Num(10))

\* C14: no call of forward or inverse, the first call after load included,
\* changes CONFIG, props.L_EFF or props.PHI.
C14_SolversReadOnly ==
    [][lastOp' \in {"forward", "inverse"} => (CONFIG' = CONFIG /\ props' = props)]_vars

\* C14, amended: a call of forward or inverse never changes CONFIG; it
\* leaves props alone unless props.L_EFF is 0 at the call (the first call
\* after load, a degenerate configuration), and then it stores the props
\* derived from CONFIG.
C14_SolversWriteOnlyStaleProps ==
    [][lastOp' \in {"forward", "inverse"} =>
        /\ CONFIG' = CONFIG
        /\ props' = IF FEq(props.L_EFF, Zero) THEN recalcProps(CONFIG) ELSE props]_vars

\* an inverse call under the built-in defaults that returned null and left
\* the derived props in place
C14_Witness ==
    /\ lastOp = "inverse"
    /\ CONFIG = DefaultConfig
    /\ ret = Null
    /\ ~FEq(props.L_EFF, Zero)
    /\ props = recalcProps(DefaultConfig)

\* the five fields the core reads
CoreFields == {"SHOULDER_SEP", "L_BODY", "L_BLUE", "A_BEND", "L_MAIN"}

\* the configuration without its other fields
Core(cfg) == [f \in CoreFields |-> cfg[f]]

\* C15: what forward and inverse return is what they return under the
\* configuration cut down to SHOULDER_SEP, L_BODY, L_BLUE, A_BEND and L_MAIN:
\* two solvers that agree on these fields return the same results, whatever
\* other fields setConfig was given.
C15_OtherFieldsIgnored ==
    /\ lastOp = "forward" =>
           ret = forward(Core(CONFIG), recalcProps(Core(CONFIG)), lastArgs[1], lastArgs[2])
    /\ lastOp = "inverse" =>
           ret = inverse(Core(CONFIG), recalcProps(Core(CONFIG)), lastArgs[1], lastArgs[2])

\* a solve that returned a result under a configuration that carries the
\* fields of the linear mode and of the safe area
C15_Witness ==
    /\ Solved
    /\ {"MODE", "LinkLength", "SAFE_W", "SAFE_H"} \subseteq DOMAIN CONFIG
    /\ Returned

\* the two intersections of the elbow circles of the pose the last forward
\* call returned
elbowIntersections ==
    getCircleIntersections(ret.EL_Virtual.x, ret.EL_Virtual.y, CONFIG.L_MAIN,
                           ret.ER_Virtual.x, ret.ER_Virtual.y, CONFIG.L_MAIN)

\* the points of the pair ints whose y is at least, at most, the y of both
LargerY(ints) ==
    {q \in {ints[1], ints[2]} : FLe(ints[1].y, q.y) /\ FLe(ints[2].y, q.y)}
SmallerY(ints) ==
    {q \in {ints[1], ints[2]} : FLe(q.y, ints[1].y) /\ FLe(q.y, ints[2].y)}

\* C19: whenever forward returns a pose, its pen point P is the one of the
\* two intersections of the elbow circles with the larger y: P.y is at least
\* the y of the other.
C19_ForwardBranch ==
    (lastOp = "forward" /\ Returned) =>
        /\ elbowIntersections # Null
        /\ ret.P \in LargerY(elbowIntersections)

\* the intersections of the circle of radius L_EFF on the servo axis S with
\* the circle of radius L_MAIN on the target of the last inverse call
axisIntersections(S) ==
    getCircleIntersections(S.x, S.y, used.L_EFF, Target.x, Target.y, CONFIG.L_MAIN)

\* C20: on each side the elbow from which inverse computes the servo angle
\* is the intersection, of the axis circle and the target circle, of smaller
\* y: what inverse returns is what the range check leaves of the angles of
\* those two elbows.
C20_InverseBranch ==
    (lastOp = "inverse" /\ axisIntersections(axisL(CONFIG)) # Null
                        /\ axisIntersections(axisR(CONFIG)) # Null) =>
        \E EL \in SmallerY(axisIntersections(axisL(CONFIG))),
           ER \in SmallerY(axisIntersections(axisR(CONFIG))) :
            ret = rangeCheck(servoAngles(CONFIG, used, EL, ER))

\* an inverse call that returned the angles of two elbows that lie above
\* their servo axes (smaller y), each with another candidate below it
C20_Witness ==
    /\ lastOp = "inverse" /\ Returned
    /\ IsFin(ret.thetaL) /\ IsFin(ret.thetaR)
    /\ \E EL \in SmallerY(axisIntersections(axisL(CONFIG))),
          ER \in SmallerY(axisIntersections(axisR(CONFIG))) :
           /\ ret = servoAngles(CONFIG, used, EL, ER)
           /\ axisIntersections(axisL(CONFIG))[1].y # axisIntersections(axisL(CONFIG))[2].y
           /\ axisIntersections(axisR(CONFIG))[1].y # axisIntersections(axisR(CONFIG))[2].y


(***************************************************************************)
(* The market demo: the LMSR cost function (core/lmsr), the market state   *)
(* (core/market) and the handlers of the application.  Arrays are          *)
(* sequences, so index i of the program is element i + 1 here.  The        *)
(* timestamp of a trade is the value of the clock at the call ("now"); the *)
(* charts, the price history and the page are not modelled.                *)
(***************************************************************************)
RECURSIVE spreadMax(_, _)
\* Math.max(...quantities) over the first n quantities
spreadMax(quantities, n) ==
    IF n = 0 THEN Inf(-1)
    ELSE MathMax(spreadMax(quantities, n - 1), quantities[n])

RECURSIVE expSum(_, _, _, _)
\* quantities.reduce((sum, q) => sum + Math.exp((q - maxQ) / b), 0)
expSum(quantities, maxQ, b, n) ==
    IF n = 0 THEN Zero
    ELSE CHOOSE sum \in {FAdd(before, MathExp(x)) :
                             before \in {expSum(quantities, maxQ, b, n - 1)},
                             x \in {FDiv(FSub(quantities[n], maxQ), b)}} : TRUE

costAt(quantities, b, maxQ) ==
    CHOOSE cost \in {FMul(b, FAdd(FDiv(maxQ, b), logSum)) :
                         logSum \in {MathLog(expSum(quantities, maxQ, b, Len(quantities)))}} : TRUE

calculateCost(market, quantities) ==
    CHOOSE cost \in {costAt(quantities, market.b, maxQ) :
                         maxQ \in {spreadMax(quantities, Len(quantities))}} : TRUE

priceAt(quantities, b, maxQ, outcomeIndex) ==
    CHOOSE price \in {FDiv(MathExp(x), sum) :
                          x \in {FDiv(FSub(quantities[outcomeIndex + 1], maxQ), b)},
                          sum \in {expSum(quantities, maxQ, b, Len(quantities))}} : TRUE

calculatePrice(market, outcomeIndex) ==
    CHOOSE price \in {priceAt(market.quantities, market.b, maxQ, outcomeIndex) :
                          maxQ \in {spreadMax(market.quantities, Len(market.quantities))}} : TRUE

\* a copy of the array with shares added at outcomeIndex
plusShares(quantities, outcomeIndex, shares) ==
    [quantities EXCEPT ![outcomeIndex + 1] = FAdd(@, shares)]

\* shares times the price before the trade, in place of the cost difference
calculateTradeCost_marginal(market, outcomeIndex, shares) ==
    FMul(shares, calculatePrice(market, outcomeIndex))

calculateTradeCost(market, outcomeIndex, shares) ==
    CHOOSE cost \in {FSub(costAfter, costBefore) :
                         costAfter \in {calculateCost(market, plusShares(market.quantities,
                                                                         outcomeIndex, shares))},
                         costBefore \in {calculateCost(market, market.quantities)}} : TRUE

\* { ...market, quantities: newQuantities }
\* executeTrade that leaves the quantities as they are
tradedMarket_untouched(market, outcomeIndex, shares) == market

tradedMarket(market, outcomeIndex, shares) ==
    [market EXCEPT !.quantities = plusShares(@, outcomeIndex, shares)]

executeTrade(market, outcomeIndex, shares) ==
    [market |-> tradedMarket(market, outcomeIndex, shares),
     cost |-> calculateTradeCost(market, outcomeIndex, shares)]

createMarketState(market, initialCash) ==
    [market |-> market,
     trades |-> <<>>,
     portfolio |-> [holdings |-> [i \in 1..Len(market.outcomes) |-> Zero],
                    cash |-> initialCash,
                    initialCash |-> initialCash]]

Error(message) == [t |-> "Error", message |-> message]

tradeRecord(market, newMarket, outcomeIndex, shares, cost) ==
    [timestamp |-> "now",
     outcomeIndex |-> outcomeIndex,
     outcomeName |-> market.outcomes[outcomeIndex + 1],
     shares |-> shares,
     cost |-> cost,
     averagePrice |-> FDiv(cost, shares),
     priceAfter |-> calculatePrice(newMarket, outcomeIndex)]

tradedState(st, newMarket, outcomeIndex, shares, cost) ==
    [market |-> newMarket,
     trades |-> Append(st.trades, tradeRecord(st.market, newMarket, outcomeIndex, shares, cost)),
     portfolio |-> [st.portfolio EXCEPT
                        !.holdings = plusShares(@, outcomeIndex, shares),
                        !.cash = FSub(@, cost)]]

\* executeMarketTrade with neither check
executeMarketTradeAt_unchecked(st, outcomeIndex, shares, cost) ==
    tradedState(st, tradedMarket(st.market, outcomeIndex, shares),
                outcomeIndex, shares, cost)

\* the market of executeTrade's result is taken without computing its cost
\* a second time
executeMarketTradeAt(st, outcomeIndex, shares, cost) ==
    IF FGt(shares, Zero) /\ FGt(cost, st.portfolio.cash)
    THEN Error("Insufficient funds")
    ELSE IF FLt(shares, Zero)
            /\ FGt(MathAbs(shares), st.portfolio.holdings[outcomeIndex + 1])
    THEN Error("Insufficient shares")
    ELSE tradedState(st, tradedMarket(st.market, outcomeIndex, shares),
                     outcomeIndex, shares, cost)

\* the new state, or the Error thrown
executeMarketTrade(st, outcomeIndex, shares) ==
    CHOOSE result \in {executeMarketTradeAt(st, outcomeIndex, shares, cost) :
                           cost \in {calculateTradeCost(st.market, outcomeIndex, shares)}} : TRUE

resetMarket(st) ==
    createMarketState([st.market EXCEPT
                           !.quantities = [i \in 1..Len(st.market.outcomes) |-> Zero]],
                      st.portfolio.initialCash)

(***************************************************************************)
(* The handlers of the application.  A handler that reads currentState     *)
(* before any scenario is loaded raises a TypeError and changes nothing.   *)
(***************************************************************************)
MaxTrades == 2

ScenarioArgs == 1..Len(Scenarios)
\* the number typed into the shares input
SharesArgs == {Num(10), Num(-5), Zero, Num(300)}
\* a position of the liquidity slider
LiquidityArgs == {Num(25)}

OutcomeArgs ==
    IF currentState = Undefined THEN {0}
    ELSE 0..(Len(currentState.market.outcomes) - 1)

\* handleScenarioChange and loadScenario, for the k-th scenario of the table
LoadScenario(k) ==
    /\ currentState' = createMarketState(scenarios[k].market, scenarios[k].initialCash)
    /\ marketOf' = k
    /\ setup' = currentState'
    /\ start' = currentState'
    /\ lastError' = "none"
    /\ UNCHANGED <<scenarios, kinVars, simVars>>

tradeOutcome(result) ==
    IF result.t = "Error"
    THEN /\ lastError' = result.message
         /\ UNCHANGED <<currentState, marketOf>>
    ELSE /\ currentState' = result.state
         /\ marketOf' = 0
         /\ lastError' = "none"

\* what the try block of handleExecuteTrade evaluates to
attempt(result) ==
    IF "t" \in DOMAIN result THEN result ELSE [t |-> "state", state |-> result]

\* handleExecuteTrade
ExecuteTrade(outcomeIndex, shares) ==
    /\ UNCHANGED <<scenarios, setup, start, kinVars, simVars>>
    /\ IF currentState = Undefined THEN TRUE ELSE Len(currentState.trades) < MaxTrades
    /\ IF shares = Zero
       THEN /\ lastError' = "Please enter a valid number of shares"
            /\ UNCHANGED <<currentState, marketOf>>
       ELSE IF currentState = Undefined
       THEN /\ lastError' = "TypeError"
            /\ UNCHANGED <<currentState, marketOf>>
       ELSE \E result \in {attempt(executeMarketTrade(currentState, outcomeIndex, shares))} :
                tradeOutcome(result)

\* handleReset, confirmed
Reset ==
    /\ IF currentState = Undefined
       THEN /\ lastError' = "TypeError"
            /\ UNCHANGED <<currentState, marketOf, start>>
       ELSE /\ currentState' = resetMarket(currentState)
            /\ marketOf' = 0
            /\ start' = currentState'
            /\ lastError' = "none"
    /\ UNCHANGED <<scenarios, setup, kinVars, simVars>>

\* handleLiquidityChange: b is assigned in the market object of
\* currentState, which is the scenario's own market object until a trade or
\* a reset has replaced it
LiquidityChange(newB) ==
    /\ IF currentState = Undefined
       THEN /\ lastError' = "TypeError"
            /\ UNCHANGED <<currentState, scenarios, start>>
       ELSE /\ currentState' = [currentState EXCEPT !.market.b = newB]
            /\ scenarios' = IF marketOf = 0 THEN scenarios
                            ELSE [scenarios EXCEPT ![marketOf].market.b = newB]
            /\ start' = currentState'
            /\ lastError' = "none"
    /\ UNCHANGED <<marketOf, setup, kinVars, simVars>>

DoLoadScenario == \E k \in ScenarioArgs : LoadScenario(k)
DoExecuteTrade == \E outcomeIndex \in OutcomeArgs : \E shares \in SharesArgs :
                      ExecuteTrade(outcomeIndex, shares)
DoLiquidityChange == \E newB \in LiquidityArgs : LiquidityChange(newB)

Next_Market == DoLoadScenario \/ DoExecuteTrade \/ Reset \/ DoLiquidityChange

SpecMarket == Init /\ [][Next_Market]_vars


(***************************************************************************)
(* Claims on the market demo (under SpecMarket)                            *)
(***************************************************************************)
\* C16: resetMarket returns a state equal to the one created when the
\* market was set up: the same outcomes, b and initial quantities, no
\* trades, zero holdings and cash equal to initialCash.
C16_ResetRestoresSetup ==
    [][(Reset /\ currentState # Undefined) => currentState' = setup]_vars


\* the trades made since the start of the current run of trades (the last
\* load, reset or change of b)
run == SubSeq(currentState.trades, Len(start.trades) + 1, Len(currentState.trades))

RECURSIVE replayReversed(_, _, _)
\* executeMarketTrade for trades i, i - 1, ..., 1 of ts, in that order; the
\* Error thrown if one of them is rejected
replayReversed(st, ts, i) ==
    IF i = 0 THEN st
    ELSE IF "t" \in DOMAIN st THEN st
    ELSE CHOOSE r \in {replayReversed(next, ts, i - 1) :
                           next \in {executeMarketTrade(st, ts[i].outcomeIndex, ts[i].shares)}} : TRUE

RECURSIVE totalCost(_, _)
\* the costs charged by the first i trades of ts, added up in order
totalCost(ts, i) == IF i = 0 THEN Zero ELSE FAdd(totalCost(ts, i - 1), ts[i].cost)

\* C(final quantities) - C(initial quantities) of the current run
costDifference ==
    CHOOSE difference \in {FSub(costNow, costAtStart) :
                               costNow \in {calculateCost(currentState.market,
                                                          currentState.market.quantities)},
                               costAtStart \in {calculateCost(start.market,
                                                              start.market.quantities)}} : TRUE

\* the same trades in the opposite order succeed from the start of the run
\* and end at the same quantities
ReorderedEndsAlike(r) ==
    /\ ~("t" \in DOMAIN r)
    /\ r.market.quantities = currentState.market.quantities

SameOutcomeExactly(r) ==
    /\ r.portfolio.cash = currentState.portfolio.cash
    /\ r.portfolio.holdings = currentState.portfolio.holdings

CashTolerance == FDiv(Num(1), Num(100))

Near(a, b) == FLe(MathAbs(FSub(a, b)), CashTolerance)

SameOutcomeNearly(r) ==
    /\ Near(r.portfolio.cash, currentState.portfolio.cash)
    /\ r.portfolio.holdings = currentState.portfolio.holdings

MaxPoints == 2
MaxPath == 3

\* the configuration the simulator passes to setConfig when it is loaded
SimConfig == ConfigArgs[7]

Step(x, y, penDown) == [x |-> x, y |-> y, penDown |-> penDown]

\* a runAnimation that turns the servos to the step's coordinates when
\* inverse finds nothing
moved_anyway(st, step, inputs) ==
    IF inputs # Null
    THEN [st EXCEPT !.penDown = step.penDown,
                    !.dL = inputs.thetaL,
                    !.dR = inputs.thetaR,
                    !.path = Append(@, [x |-> step.x, y |-> step.y, valid |-> TRUE,
                                        penDown |-> step.penDown])]
    ELSE [st EXCEPT !.penDown = step.penDown, !.dL = step.x, !.dR = step.y,
                    !.path = IF step.penDown
                             THEN Append(@, [x |-> step.x, y |-> step.y, valid |-> FALSE,
                                             penDown |-> step.penDown])
                             ELSE @]

\* the two branches of runAnimation after the call of inverse
moved(st, step, inputs) ==
    IF inputs # Null
    THEN [st EXCEPT !.penDown = step.penDown,
                    !.dL = inputs.thetaL,
                    !.dR = inputs.thetaR,
                    !.path = Append(@, [x |-> step.x, y |-> step.y, valid |-> TRUE,
                                        penDown |-> step.penDown])]
    ELSE IF step.penDown
    THEN [st EXCEPT !.penDown = step.penDown,
                    !.path = Append(@, [x |-> step.x, y |-> step.y, valid |-> FALSE,
                                        penDown |-> step.penDown])]
    ELSE [st EXCEPT !.penDown = step.penDown]

\* runAnimation: the state and the queue it leaves
runAnimation(st, queue, cfg, p) ==
    IF queue = <<>>
    THEN [state |-> [st EXCEPT !.penDown = FALSE], queue |-> queue]
    ELSE LET inputs == inverse(cfg, p, Head(queue).x, Head(queue).y)
         IN  [state |-> moved(st, Head(queue), inputs), queue |-> Tail(queue)]

\* a frame that takes no step off the queue
frameSteps_stalled(r, cfg, p, i) == r

RECURSIVE frameSteps(_, _, _, _)
\* for (let i = 0; i < state.speed; i++) if (animationQueue.length > 0) runAnimation();
frameSteps(r, cfg, p, i) ==
    IF i = 0 \/ r.queue = <<>> THEN r
    ELSE frameSteps(runAnimation(r.state, r.queue, cfg, p), cfg, p, i - 1)

\* updateKinematics, with res the result of forward
updateKinematics(st, queue, res) ==
    IF res = TypeError THEN st
    ELSE IF res # Null /\ st.penDown /\ queue = <<>>
    THEN [st EXCEPT !.kRes = res,
                    !.path = Append(@, [x |-> res.P.x, y |-> res.P.y, valid |-> TRUE])]
    ELSE [st EXCEPT !.kRes = res]

\* the state and the queue the animation steps of a frame leave
frame(st, queue, cfg, p) ==
    IF st.isPaused THEN [state |-> st, queue |-> queue]
    ELSE frameSteps([state |-> st, queue |-> queue], cfg, p, st.speed)

TargetFrames == 180
MaxSpeed == 50

\* Math.ceil(n / TARGET_FRAMES), clamped to 1 .. 50
adaptiveSpeed(n) ==
    IF (n + TargetFrames - 1) \div TargetFrames < 1 THEN 1
    ELSE IF (n + TargetFrames - 1) \div TargetFrames > MaxSpeed THEN MaxSpeed
    ELSE (n + TargetFrames - 1) \div TargetFrames

\* the queue startShapeBuffer makes of points
shapeQueue(points) == [i \in 1..Len(points) |-> Step(points[i].x, points[i].y, TRUE)]

\* the steps processSVG queues for one sub-path: travel, draw, lift
subPathQueue(subPath) ==
    <<Step(subPath[1].x, subPath[1].y, FALSE)>>
    \o shapeQueue(subPath)
    \o <<Step(subPath[Len(subPath)].x, subPath[Len(subPath)].y, FALSE)>>

RECURSIVE svgQueue(_, _)
\* the queue processSVG makes of the first n sub-paths
svgQueue(svgPaths, n) ==
    IF n = 0 THEN <<>>
    ELSE IF svgPaths[n] = <<>> THEN svgQueue(svgPaths, n - 1)
    ELSE svgQueue(svgPaths, n - 1) \o subPathQueue(svgPaths[n])

\* targets of the shapes: two the arm reaches when A_BEND is 60, one it
\* never reaches
PointArgs == {Point(Num(0), Num(230)), Point(Num(0), Num(240)), Point(Num(0), Num(100))}

RECURSIVE SeqsUpTo(_, _)
\* the sequences over S of length 1 .. n
SeqsUpTo(S, n) ==
    IF n = 0 THEN {}
    ELSE {<<s>> : s \in S} \cup SeqsUpTo(S, n - 1)
         \cup {Append(q, s) : q \in SeqsUpTo(S, n - 1), s \in S}

ShapeArgs == SeqsUpTo(PointArgs, MaxPoints)
\* drawings of one sub-path
SvgArgs == {<<subPath>> : subPath \in SeqsUpTo(PointArgs, MaxPoints - 1)}
\* the value of the sliders
SliderArgs == {Num(0)}
\* the configuration the page passes to setConfig
SimConfigArgs == {ConfigArgs[1]}

\* the simulator loaded: setConfig of lines 7-19, then init()
Init_Sim ==
    /\ CONFIG = merge(DefaultConfig, SimConfig)
    /\ props = recalcProps(CONFIG)
    /\ \E dL \in SliderArgs : \E dR \in SliderArgs :
           state = updateKinematics([SimState EXCEPT !.dL = dL, !.dR = dR], <<>>,
                                    forward(CONFIG, props, dL, dR))
    /\ animationQueue = <<>>
    /\ queued = <<>>
    /\ lastOp = "setConfig"
    /\ lastArgs = <<SimConfig>>
    /\ used = InitProps
    /\ ret = Null
    /\ MarketAtLoad

\* one frame of loop
Loop ==
    /\ Len(state.path) < MaxPath
    /\ UNCHANGED <<CONFIG, lastOp, lastArgs, used, ret, queued, marketVars>>
    /\ props' = lazyProps(CONFIG, props)
    /\ \E r \in {frame(state, animationQueue, CONFIG, props')} :
           \E res \in {forward(CONFIG, props', r.state.dL, r.state.dR)} :
               /\ state' = updateKinematics(r.state, r.queue, res)
               /\ animationQueue' = r.queue

StartShapeBuffer(points) ==
    /\ animationQueue' = shapeQueue(points)
    /\ queued' = animationQueue'
    /\ state' = [state EXCEPT !.path = <<>>,
                              !.penDown = FALSE,
                              !.speed = adaptiveSpeed(Len(points)),
                              !.totalSteps = Len(points),
                              !.isPaused = FALSE]
    /\ UNCHANGED <<kinVars, marketVars>>

ProcessSVG(svgPaths) ==
    /\ animationQueue' = svgQueue(svgPaths, Len(svgPaths))
    /\ queued' = animationQueue'
    /\ state' = [state EXCEPT !.path = <<>>,
                              !.penDown = FALSE,
                              !.totalSteps = Len(animationQueue'),
                              !.isPaused = FALSE]
    /\ UNCHANGED <<kinVars, marketVars>>

ThetaLInput(v) ==
    /\ state' = [state EXCEPT !.dL = v]
    /\ animationQueue' = <<>>
    /\ queued' = <<>>
    /\ UNCHANGED <<kinVars, marketVars>>

ThetaRInput(v) ==
    /\ state' = [state EXCEPT !.dR = v]
    /\ animationQueue' = <<>>
    /\ queued' = <<>>
    /\ UNCHANGED <<kinVars, marketVars>>

PenToggle ==
    /\ state' = [state EXCEPT !.penDown = ~@]
    /\ UNCHANGED <<animationQueue, queued, kinVars, marketVars>>

Clear ==
    /\ state' = [state EXCEPT !.path = <<>>, !.penDown = FALSE]
    /\ queued' = <<>>
    /\ UNCHANGED <<animationQueue, kinVars, marketVars>>

Pause ==
    /\ state' = [state EXCEPT !.isPaused = ~@]
    /\ UNCHANGED <<animationQueue, queued, kinVars, marketVars>>

Stop ==
    /\ animationQueue' = <<>>
    /\ queued' = <<>>
    /\ state' = [state EXCEPT !.path = <<>>, !.totalSteps = 0, !.penDown = FALSE]
    /\ UNCHANGED <<kinVars, marketVars>>

\* KINEMATICS.setConfig, between animations
Configure ==
    /\ animationQueue = <<>>
    /\ \E config \in SimConfigArgs : SetConfig(config)

DoStartShapeBuffer == \E points \in ShapeArgs : StartShapeBuffer(points)
DoProcessSVG == \E svgPaths \in SvgArgs : ProcessSVG(svgPaths)
DoThetaLInput == \E v \in SliderArgs : ThetaLInput(v)
DoThetaRInput == \E v \in SliderArgs : ThetaRInput(v)

Next_Sim ==
    \/ Loop
    \/ DoStartShapeBuffer
    \/ DoProcessSVG
    \/ DoThetaLInput
    \/ DoThetaRInput
    \/ PenToggle
    \/ Clear
    \/ Pause
    \/ Stop
    \/ Configure

SpecSim == Init_Sim /\ [][Next_Sim]_vars


(***************************************************************************)
(* Claims on the simulator (under SpecSim)                                 *)
(***************************************************************************)
\* inverse finds servo angles for every step of queue
AllReachable(queue) ==
    \A i \in 1..Len(queue) :
        inverse(CONFIG, props, queue[i].x, queue[i].y) \notin {Null, TypeError}

\* the path entry carries the step's x, y and penDown
RecordedAs(entry, step) ==
    /\ "penDown" \in DOMAIN entry
    /\ entry.x = step.x
    /\ entry.y = step.y
    /\ entry.penDown = step.penDown

\* one entry per step of queue, in queue order
Recorded(path, queue) ==
    /\ Len(path) = Len(queue)
    /\ \A i \in 1..Len(queue) : RecordedAs(path[i], queue[i])

\* the frame that consumes the last step of an animation that no handler
\* has cut short and whose path no handler has cleared
LastFrame ==
    /\ Loop
    /\ queued # <<>>
    /\ animationQueue # <<>>
    /\ animationQueue' = <<>>

\* C18: when every queued step is reachable, once the frames have consumed
\* the whole queue state.path holds exactly one entry per step, in queue
\* order, each with that step's x, y and penDown.
C18_PathRecording ==
    [][(LastFrame /\ AllReachable(queued)) => Recorded(state'.path, queued)]_vars


(***************************************************************************)
(* The derived properties and the round trip from servo angles (under      *)
(* Spec)                                                                   *)
(***************************************************************************)
\* inverse called on the pen point the last forward call returned
inverseOfRet == inverse(CONFIG, lazyProps(CONFIG, props), ret.P.x, ret.P.y)

\* the servo pair r is the pair (dL, dR) up to the tolerance of the tests
SamePair(r, dL, dR) ==
    /\ r \notin {Null, TypeError}
    /\ FLe(MathAbs(FSub(r.thetaL, dL)), Tolerance)
    /\ FLe(MathAbs(FSub(r.thetaR, dR)), Tolerance)

\* -30 <= theta <= 60
InServoLimits(theta) == FLe(Num(-30), theta) /\ FLe(theta, Num(60))

\* C21: under a configuration with positive link lengths and 0 < A_BEND <
\* 180, whenever forward returns a pen point P for a servo pair within
\* [-30, 60], inverse(P.x, P.y) returns that servo pair up to tolerance.
C21_InverseOfForward ==
    (/\ lastOp = "forward"
     /\ ValidConfig(CONFIG)
     /\ InServoLimits(lastArgs[1]) /\ InServoLimits(lastArgs[2])
     /\ Returned)
        => SamePair(inverseOfRet, lastArgs[1], lastArgs[2])


(***************************************************************************)
(* recalcProps on its own: the arm lengths and the bend angle are set at   *)
(* load, on a grid, and the one call is made on them.                      *)
(***************************************************************************)
\* arm lengths, and bend angles in degrees
LengthArgs == {5, 7, 14, 50}
BendArgs == {0, 30, 60, 90, 120, 150, 180}

CrankArgs ==
    {[L_BODY |-> Num(b), L_BLUE |-> Num(l), A_BEND |-> Num(a)] :
        b \in LengthArgs, l \in LengthArgs, a \in BendArgs}

Init_Props ==
    /\ CONFIG \in {merge(DefaultConfig, crank) : crank \in CrankArgs}
    /\ props = InitProps
    /\ lastOp = "load"
    /\ lastArgs = <<>>
    /\ used = InitProps
    /\ ret = Null
    /\ MarketAtLoad
    /\ SimAtLoad

RecalcProps ==
    /\ lastOp = "load"
    /\ props' = recalcProps(CONFIG)
    /\ lastOp' = "recalcProps"
    /\ UNCHANGED <<CONFIG, lastArgs, used, ret, marketVars, simVars>>

Next_Props == RecalcProps

SpecProps == Init_Props /\ [][Next_Props]_vars

(***************************************************************************)
(* Claims on the derived properties (under SpecProps)                      *)
(***************************************************************************)
Recalculated == lastOp = "recalcProps"

EqualArms == CONFIG.L_BODY = CONFIG.L_BLUE

\* C22 as stated: L_EFF is 0 exactly when the two arm lengths are equal and
\* the bend angle is 180 degrees, and strictly positive otherwise.
C22_ZeroAtStraightArm ==
    Recalculated =>
        IF EqualArms /\ CONFIG.A_BEND = Num(180)
        THEN FEq(props.L_EFF, Zero)
        ELSE FGt(props.L_EFF, Zero)

\* C22 amended: for bend angles from 0 to 180 degrees, L_EFF is 0 exactly
\* when the two arm lengths are equal and the bend angle is 0 degrees, and
\* strictly positive otherwise; at 180 degrees it is L_BODY + L_BLUE.
C22_ZeroAtFoldedArm ==
    Recalculated =>
        /\ IF EqualArms /\ CONFIG.A_BEND = Zero
           THEN FEq(props.L_EFF, Zero)
           ELSE FGt(props.L_EFF, Zero)
        /\ CONFIG.A_BEND = Num(180) =>
               FLe(MathAbs(FSub(props.L_EFF, FAdd(CONFIG.L_BODY, CONFIG.L_BLUE))), Tolerance)

\* recalcProps has run on equal arms folded back at 0 degrees and stored 0
C22_Witness ==
    /\ Recalculated
    /\ EqualArms
    /\ CONFIG.A_BEND = Zero
    /\ FEq(props.L_EFF, Zero)


\* A_BEND in radians
radBend == FDiv(FMul(CONFIG.A_BEND, MathPI), Num(180))

\* the angle at the servo axis between the body arm and the line to the
\* crank's free end: the axis at the origin, the body arm along the x axis,
\* the blue arm leaving its end at the interior angle A_BEND
angleAtAxis ==
    MathAtan2(FMul(CONFIG.L_BLUE, MathSin(radBend)),
              FSub(CONFIG.L_BODY, FMul(CONFIG.L_BLUE, MathCos(radBend))))

\* C23: for positive arm lengths and 0 < A_BEND < 180, the PHI computed by
\* recalcProps is the angle at the servo axis between the body arm and the
\* line to the crank's free end, whether that angle is acute or obtuse.
C23_PhaseOffset ==
    (Recalculated /\ ValidConfig(CONFIG)) =>
        /\ IsFin(props.PHI)
        /\ FLe(MathAbs(FSub(props.PHI, angleAtAxis)), Tolerance)


\* the steps the next frame takes off the queue
nextSteps ==
    IF state.isPaused THEN <<>>
    ELSE SubSeq(animationQueue, 1,
                IF state.speed < Len(animationQueue) THEN state.speed
                ELSE Len(animationQueue))

\* inverse reports every one of the steps as not found
NoneReachable(steps) ==
    \A i \in 1..Len(steps) : inverse(CONFIG, props, steps[i].x, steps[i].y) = Null

\* the configurations the simulator can be under
SimConfigs ==
    {merge(DefaultConfig, SimConfig)}
    \cup {merge(merge(DefaultConfig, SimConfig), config) : config \in SimConfigArgs}

\* the servo pairs inverse finds for the targets of the shapes
FoundPairs ==
    {inverse(cp[1], cp[2], p.x, p.y) :
         cp \in {<<cfg, recalcProps(cfg)>> : cfg \in SimConfigs}, p \in PointArgs}
    \ {Null, TypeError}

\* state.dL and state.dR are slider values or come from a pair inverse found
KnownAngles ==
    /\ state.dL \in SliderArgs \cup {r.thetaL : r \in FoundPairs}
    /\ state.dR \in SliderArgs \cup {r.thetaR : r \in FoundPairs}

\* C24: a frame whose steps inverse reports as not found leaves state.dL
\* and state.dR as they were, and state.dL and state.dR always hold the
\* initial or slider values or the result of a successful inverse call.
C24_StaysPut ==
    /\ []KnownAngles
    /\ [][(Loop /\ nextSteps # <<>> /\ NoneReachable(nextSteps))
              => (state'.dL = state.dL /\ state'.dR = state.dR)]_vars

\* an unreachable step was drawn right after a reachable one, and the
\* servos still hold the angles of the reachable one
C24_Witness ==
    /\ Len(state.path) >= 2
    /\ "penDown" \in DOMAIN state.path[1] /\ state.path[1].valid
    /\ "penDown" \in DOMAIN state.path[2] /\ ~state.path[2].valid
    /\ state.dL \notin SliderArgs
    /\ state.dL \in {r.thetaL : r \in FoundPairs}


\* the frame that takes the last step off the queue
ExhaustingFrame ==
    /\ Loop
    /\ animationQueue # <<>>
    /\ animationQueue' = <<>>

\* C25: once the frames have consumed every queued step, state.penDown is
\* false, whatever the penDown of the last step was.
C25_PenLifted ==
    [][ExhaustingFrame => ~state'.penDown]_vars


\* the simulator with its frames scheduled again and again
\* (requestAnimationFrame(loop) at the end of every frame)
LoopEnabled == Len(state.path) < MaxPath

SpecSimFair == SpecSim /\ ([]<>~LoopEnabled \/ []<><<Loop>>_vars)

\* 1 <= state.speed <= 50 and animationQueue.length <= state.totalSteps
QueueWithinTotal ==
    /\ 1 <= state.speed /\ state.speed <= MaxSpeed
    /\ Len(animationQueue) <= state.totalSteps

\* a frame takes nextSteps off the front of the queue, nothing when paused
FrameConsumes ==
    Loop => /\ animationQueue = nextSteps \o animationQueue'
            /\ Len(nextSteps) = IF state.isPaused THEN 0
                                ELSE IF state.speed < Len(animationQueue) THEN state.speed
                                ELSE Len(animationQueue)

\* the longest queue of the shapes and drawings
MaxQueue == MaxPoints + 2

Stroked(entry) ==
    IF "penDown" \in DOMAIN entry THEN entry.penDown = TRUE ELSE FALSE

\* C27: every point a step appends to state.path while the pen is down, by
\* an animation step or by a manual move, has penDown = true, so the
\* renderer draws the segment that ends at it.
C27_ManualDrawingDrawn ==
    [][\A i \in (Len(state.path) + 1)..Len(state'.path) :
           state'.penDown => Stroked(state'.path[i])]_vars



(***************************************************************************)
(* Rejected trades (under SpecMarket)                                      *)
(***************************************************************************)
\* cash >= 0 and every holding >= 0
Sound(st) ==
    /\ FLe(Zero, st.portfolio.cash)
    /\ \A i \in 1..Len(st.portfolio.holdings) : FLe(Zero, st.portfolio.holdings[i])

\* a buy that costs more than the cash at hand
Unaffordable(st, shares, cost) ==
    FGt(shares, Zero) /\ FGt(cost, st.portfolio.cash)

\* a sale of more shares than are held of the outcome
Unbacked(st, outcomeIndex, shares) ==
    FLt(shares, Zero) /\ FGt(MathAbs(shares), st.portfolio.holdings[outcomeIndex + 1])

\* executeMarketTrade throws for a trade that is unaffordable or unbacked,
\* and otherwise returns the state with one more trade record
TradeSettled(st, outcomeIndex, shares, cost, result) ==
    IF Unaffordable(st, shares, cost)
    THEN result = Error("Insufficient funds")
    ELSE IF Unbacked(st, outcomeIndex, shares)
    THEN result = Error("Insufficient shares")
    ELSE /\ ~("t" \in DOMAIN result)
         /\ Len(result.trades) = Len(st.trades) + 1
         /\ SubSeq(result.trades, 1, Len(st.trades)) = st.trades

\* the handler keeps currentState when the trade was refused
RefusalKeepsState ==
    lastError' \in {"Insufficient funds", "Insufficient shares"}
        => currentState' = currentState

\* a step adds at most one trade record, and only without an error
OneRecordPerTrade ==
    (currentState # Undefined /\ currentState' # Undefined
        /\ Len(currentState'.trades) > Len(currentState.trades))
        => /\ Len(currentState'.trades) = Len(currentState.trades) + 1
           /\ lastError' = "none"

\* C28: a buy that costs more than the cash, or a sale of more shares than
\* are held, is refused by executeMarketTrade, and the handler then leaves
\* the state as it was; any other trade adds exactly one record; and cash
\* and every holding stay >= 0 throughout.
C28_RejectionKeepsSound ==
    /\ [](currentState # Undefined =>
              /\ Sound(currentState)
              /\ \A outcomeIndex \in OutcomeArgs : \A shares \in SharesArgs \ {Zero} :
                     \E cost \in {calculateTradeCost(currentState.market, outcomeIndex, shares)} :
                         \E result \in {executeMarketTradeAt(currentState, outcomeIndex,
                                                              shares, cost)} :
                             TradeSettled(currentState, outcomeIndex, shares, cost, result))
    /\ [][RefusalKeepsState /\ OneRecordPerTrade]_vars

\* a buy was refused after a trade had gone through
C28_Witness ==
    /\ currentState # Undefined
    /\ lastError = "Insufficient funds"
    /\ currentState.trades # <<>>


(***************************************************************************)
(* Holdings and market quantities (under SpecMarket)                       *)
(***************************************************************************)
RECURSIVE sharesOn(_, _, _)
\* the sum of the shares of the first n recorded trades on outcome i
\* (i counts from 1, outcomeIndex from 0)
sharesOn(trades, i, n) ==
    IF n = 0 THEN Zero
    ELSE IF trades[n].outcomeIndex = i - 1
         THEN FAdd(sharesOn(trades, i, n - 1), trades[n].shares)
         ELSE sharesOn(trades, i, n - 1)

\* a step that creates a market state: loadScenario or resetMarket
Creation == (\E k \in ScenarioArgs : LoadScenario(k)) \/ (Reset /\ currentState # Undefined)

\* q_i minus holdings[i]
aheadOfHoldings(st, i) == FSub(st.market.quantities[i], st.portfolio.holdings[i])

C30_ScenariosUnchanged ==
    [](\A k \in ScenarioArgs :
           /\ scenarios[k].market.b = Scenarios[k].market.b
           /\ scenarios[k].market.outcomes = Scenarios[k].market.outcomes
           /\ scenarios[k].market.quantities = Scenarios[k].market.quantities)

====
